---- MODULE Spec2Model ----
(***************************************************************************)
(* The resilient fetch helper of the cravii client:                        *)
(* src/app/utils/fetchWithRetry.ts.  One invocation is a process that      *)
(* suspends at every await of the code (storage read, transport call,      *)
(* storage write, backoff timer); every action below is the code that runs *)
(* between two awaits.  The transport, AsyncStorage and the timers are the *)
(* environment: the answer of each call is chosen by the action that       *)
(* resumes the invocation.                                                 *)
(***************************************************************************)
EXTENDS Integers, Sequences, FiniteSets, TLC

\* ---------------------------------------------------------------- bounds
MaxRetries == 4

\* ------------------------------------------------------------- constants
DefaultRetries == 4
DefaultInitialDelay == 300
CookieFromAttempt == 2

\* invocation slots; the first runs alone in Spec
Procs == {1, 2}
Solo == {1}

\* the variants of the helper: utils/fetchWithRetry.ts (timeout, logging under
\* __DEV__, wrapped terminal error) and orders.tsx (no timeout, logging always,
\* last error rethrown)
Variants == {"utils", "orders"}

Null == "null"
\* the values of Set-Cookie response headers
Cookies == {"sid=abc", "sid=xyz"}
\* what the sessionCookie key holds before the first invocation: nothing, or
\* a cookie of an earlier run of the app
StoredBefore == {Null, "sid=old"}
Statuses == {200, 403, 503}
Texts == {"denied"}
InitialDelays == {100, DefaultInitialDelay}
\* the retries arguments of the invocations that run concurrently
\* the retries arguments of a call: a negative count, zero, and every count
\* up to the bound
RetryCounts == (0 - 1)..MaxRetries

\* the ids of the recipes the screens show
Recipes == {"7", "9"}

ConcurrentRetries == {1, 2}
\* the retries arguments of a slot that reaches the attempts carrying the
\* stored cookie and of a slot that makes one attempt beside it
RereadRetries == <<3, 1>>
Bodies == {Null, "json", "text"}
\* bodies of 2xx responses: one that parses as JSON and one that does not
SuccessTexts == {"{}", "<html>"}

\* the three User-Agent strings of the rotation list, abbreviated
userAgents == <<"Chrome/117 Windows", "Safari/16 Macintosh", "Safari/16 iPhone">>

NoHeaders == [k \in {} |-> ""]
CallerHeaders ==
  { NoHeaders,
    [k \in {"User-Agent"} |-> "CallerAgent"],
    [k \in {"Cookie"} |-> "caller=1"],
    [k \in {"Accept"} |-> "text/html"] }

\* the options of the calls: every body without caller headers, every caller
\* header set with one body
Requests ==
  {[body |-> b, headers |-> NoHeaders] : b \in Bodies}
    \cup {[body |-> "json", headers |-> h] : h \in CallerHeaders}

\* the calls: an initial delay and the options; every request with the default
\* delay, every delay with the plain request
Calls ==
  {<<DefaultInitialDelay, o>> : o \in Requests}
    \cup {<<d, [body |-> Null, headers |-> NoHeaders]>> : d \in InitialDelays}

VARIABLES
  storage,        \* AsyncStorage value of the key sessionCookie, or Null
  dev,            \* the build flag __DEV__
  pc,             \* where each invocation is suspended
  variant,        \* which copy of fetchWithRetry the invocation runs
  retries, initialDelay, options,   \* arguments of the invocation
  i,              \* loop index
  sent,           \* headers of the most recent transport call
  nCalls,         \* number of transport calls of this invocation
  readValue,      \* what the getItem before the most recent call returned
  response,       \* answer of the most recent transport call
  prior,          \* kinds of the answers of all earlier transport calls
  caught,         \* the error the catch block of the most recent attempt received
  delay,          \* the most recent backoff wait
  nWaits, totalWait,
  outcome,        \* how the invocation settled
  timers          \* pending timeout timers, each named by the controller it aborts

\* the variables of the handleAddToCart calls
VARIABLES
  cart,           \* AsyncStorage value of the key cart: the ids of its entries, or Null
  cartPc,         \* where each handleAddToCart call is suspended
  recipeId,       \* the id of the recipe the screen of the call shows
  cartItems,      \* the local array cartItems of the call
  cartAtCall      \* the stored cart when the call was made

cartVars == <<cart, cartPc, recipeId, cartItems, cartAtCall>>

fetchVars == <<storage, dev, pc, variant, retries, initialDelay, options, i, sent, nCalls,
               readValue, response, prior, caught, delay, nWaits, totalWait, outcome, timers>>

vars == <<fetchVars, cartVars>>

\* ------------------------------------------------------------ data shapes
\* (record fields are always written in the same order)
NoResponse == [kind |-> "none", status |-> 0, setCookie |-> Null, text |-> ""]
NoError == [status |-> 0, text |-> "", cites |-> -1, reason |-> "none"]
NoOutcome == [response |-> NoResponse, kind |-> "none", attempt |-> -1, error |-> NoError]

\* response.ok
Ok(status) == status >= 200 /\ status <= 299

RECURSIVE Pow2(_)
Pow2(n) == IF n <= 0 THEN 1 ELSE 2 * Pow2(n - 1)

BackoffFromNextIndex(d, n) == d * Pow2(n + 1)

\* initialDelay * Math.pow(2, i)
Backoff(d, n) == d * Pow2(n)

MergeKeepsFirst(a, b) ==
  [k \in DOMAIN a \cup DOMAIN b |-> IF k \in DOMAIN a THEN a[k] ELSE b[k]]

\* { ...a, ...b }
Merge(a, b) == [k \in DOMAIN a \cup DOMAIN b |-> IF k \in DOMAIN b THEN b[k] ELSE a[k]]

currentUserAgentNoRotation(n) == userAgents[1]

\* userAgents[i % userAgents.length]
currentUserAgent(n) == userAgents[(n % Len(userAgents)) + 1]

defaultHeadersCallerFirst(n, callerHeaders) ==
  Merge(callerHeaders,
        [k \in {"Accept", "Content-Type", "User-Agent", "Accept-Encoding", "Connection"} |->
           CASE k = "Accept" -> "application/json"
             [] k = "Content-Type" -> "application/json"
             [] k = "User-Agent" -> currentUserAgent(n)
             [] k = "Accept-Encoding" -> "gzip, deflate, br"
             [] OTHER -> "keep-alive"])

\* the object literal defaultHeaders: the five defaults, then ...options.headers
defaultHeaders(n, callerHeaders) ==
  Merge([k \in {"Accept", "Content-Type", "User-Agent", "Accept-Encoding", "Connection"} |->
           CASE k = "Accept" -> "application/json"
             [] k = "Content-Type" -> "application/json"
             [] k = "User-Agent" -> currentUserAgent(n)
             [] k = "Accept-Encoding" -> "gzip, deflate, br"
             [] OTHER -> "keep-alive"],
        callerHeaders)

AttachCookieFromFirstRetry(n, sessionCookie) == sessionCookie # Null /\ n >= 1

\* if (sessionCookie && i >= 2) defaultHeaders['Cookie'] = sessionCookie
AttachCookie(n, sessionCookie) == sessionCookie # Null /\ n >= CookieFromAttempt

RequestHeadersCallerCookieWins(n, callerHeaders, sessionCookie) ==
  IF AttachCookie(n, sessionCookie)
    THEN Merge([k \in {"Cookie"} |-> sessionCookie], defaultHeaders(n, callerHeaders))
    ELSE defaultHeaders(n, callerHeaders)

\* the headers of the transport call: defaultHeaders after lines 28-30
RequestHeaders(n, callerHeaders, sessionCookie) ==
  IF AttachCookie(n, sessionCookie)
    THEN Merge(defaultHeaders(n, callerHeaders), [k \in {"Cookie"} |-> sessionCookie])
    ELSE defaultHeaders(n, callerHeaders)

\* new Error(`HTTP ${response.status} - ${errorText}`)
HttpError(r) == [status |-> r.status, text |-> r.text, cites |-> -1, reason |-> "HTTP"]
ThrownError(name) == [status |-> 0, text |-> "", cites |-> -1, reason |-> name]

\* new Error(`Fetch failed after ${retries} attempts: ${error.message}`)
ExhaustedError(n, e) == [status |-> e.status, text |-> e.text, cites |-> n, reason |-> e.reason]

\* new Error(`Fetch failed after ${retries} attempts`)
NoAttemptsError(n) == [status |-> 0, text |-> "", cites |-> n, reason |-> "none"]

AttemptsRemainAfterLast(n, r) == n < r

\* i < retries - 1
AttemptsRemain(n, r) == n < r - 1

\* payload: options.body ? JSON.parse(options.body) : null, evaluated only if __DEV__
LogThrows(d, body) == d /\ body = "text"

\* whether the log call of the !response.ok branch is evaluated: under
\* if (__DEV__) in utils/fetchWithRetry.ts, unconditionally in orders.tsx
Logs(v, d) == IF v = "utils" THEN d ELSE TRUE

\* whether the fetch is wrapped with an AbortController and a timeout timer
HasTimeout(v) == v = "utils"

TerminalErrorAlwaysWraps(v, n, e) == ExhaustedError(n, e)

\* the throw of the catch block on the last attempt
TerminalError(v, n, e) == IF v = "utils" THEN ExhaustedError(n, e) ELSE e

\* what is remembered of an answer once a later transport call is made
AnswerClass(r) == [kind |-> r.kind, status |-> r.status]

ControllerPerInvocation(p, n) == <<p, 0>>

\* const controller = new AbortController(): one per attempt of an invocation
Controller(p, n) == <<p, n>>

\* the controller of a timer that outlives its invocation: no call carries its signal
Orphan == <<0, 0>>

Init ==
  /\ storage \in StoredBefore
  /\ dev \in BOOLEAN
  /\ pc = [p \in Procs |-> "idle"]
  /\ variant = [p \in Procs |-> "utils"]
  /\ retries = [p \in Procs |-> DefaultRetries]
  /\ initialDelay = [p \in Procs |-> DefaultInitialDelay]
  /\ options = [p \in Procs |-> [body |-> Null, headers |-> NoHeaders]]
  /\ i = [p \in Procs |-> 0]
  /\ sent = [p \in Procs |-> NoHeaders]
  /\ nCalls = [p \in Procs |-> 0]
  /\ readValue = [p \in Procs |-> Null]
  /\ response = [p \in Procs |-> NoResponse]
  /\ prior = [p \in Procs |-> {}]
  /\ caught = [p \in Procs |-> NoError]
  /\ delay = [p \in Procs |-> 0]
  /\ nWaits = [p \in Procs |-> 0]
  /\ totalWait = [p \in Procs |-> 0]
  /\ outcome = [p \in Procs |-> NoOutcome]
  /\ timers = {}
  /\ cart = Null
  /\ cartPc = [p \in Procs |-> "idle"]
  /\ recipeId = [p \in Procs |-> Null]
  /\ cartItems = [p \in Procs |-> <<>>]
  /\ cartAtCall = [p \in Procs |-> <<>>]

\* ------------------------------------------------------- control transfers
WaitSharedDelay(p) ==
  /\ delay' = [q \in Procs |-> Backoff(initialDelay[p], i[p])]
  /\ nWaits' = [nWaits EXCEPT ![p] = @ + 1]
  /\ totalWait' = [totalWait EXCEPT ![p] = @ + Backoff(initialDelay[p], i[p])]
  /\ pc' = [pc EXCEPT ![p] = "wait"]
  /\ UNCHANGED outcome

\* await new Promise((resolve) => setTimeout(resolve, delay))
Wait(p) ==
  /\ delay' = [delay EXCEPT ![p] = Backoff(initialDelay[p], i[p])]
  /\ nWaits' = [nWaits EXCEPT ![p] = @ + 1]
  /\ totalWait' = [totalWait EXCEPT ![p] = @ + Backoff(initialDelay[p], i[p])]
  /\ pc' = [pc EXCEPT ![p] = "wait"]
  /\ UNCHANGED outcome

\* an error leaves the function: the promise of the invocation rejects
Raise(p, e) ==
  /\ outcome' = [outcome EXCEPT ![p] =
                   [response |-> NoResponse, kind |-> "raised", attempt |-> i[p], error |-> e]]
  /\ pc' = [pc EXCEPT ![p] = "done"]
  /\ UNCHANGED <<delay, nWaits, totalWait>>

\* return response
Return(p, r) ==
  /\ outcome' = [outcome EXCEPT ![p] =
                   [response |-> r, kind |-> "returned", attempt |-> i[p], error |-> NoError]]
  /\ pc' = [pc EXCEPT ![p] = "done"]
  /\ UNCHANGED <<delay, nWaits, totalWait>>

CatchWithoutRetry(p, e) ==
  /\ caught' = [caught EXCEPT ![p] = e]
  /\ Raise(p, TerminalError(variant[p], retries[p], e))

\* the catch block of the loop body
Catch(p, e) ==
  /\ caught' = [caught EXCEPT ![p] = e]
  /\ IF AttemptsRemain(i[p], retries[p])
       THEN Wait(p)
       ELSE Raise(p, TerminalError(variant[p], retries[p], e))

\* the iteration ends without entering the catch block
NoCatch(p) == caught' = [caught EXCEPT ![p] = NoError]

\* ------------------------------------------------------------------ actions
StartEntersLoop(p, v, r, d, o) ==
  /\ pc[p] = "idle"
  /\ variant' = [variant EXCEPT ![p] = v]
  /\ retries' = [retries EXCEPT ![p] = r]
  /\ initialDelay' = [initialDelay EXCEPT ![p] = d]
  /\ options' = [options EXCEPT ![p] = o]
  /\ i' = [i EXCEPT ![p] = 0]
  /\ sent' = [sent EXCEPT ![p] = NoHeaders]
  /\ nCalls' = [nCalls EXCEPT ![p] = 0]
  /\ readValue' = [readValue EXCEPT ![p] = Null]
  /\ response' = [response EXCEPT ![p] = NoResponse]
  /\ prior' = [prior EXCEPT ![p] = {}]
  /\ caught' = [caught EXCEPT ![p] = NoError]
  /\ delay' = [delay EXCEPT ![p] = 0]
  /\ nWaits' = [nWaits EXCEPT ![p] = 0]
  /\ totalWait' = [totalWait EXCEPT ![p] = 0]
  /\ pc' = [pc EXCEPT ![p] = "read"]
  /\ outcome' = [outcome EXCEPT ![p] = NoOutcome]
  /\ UNCHANGED <<storage, dev, cartVars, timers>>

\* the call fetchWithRetry(url, options, retries, initialDelay): runs up to
\* the first await, or to the final throw when the loop body is never entered
Start(p, v, r, d, o) ==
  /\ pc[p] = "idle"
  /\ variant' = [variant EXCEPT ![p] = v]
  /\ retries' = [retries EXCEPT ![p] = r]
  /\ initialDelay' = [initialDelay EXCEPT ![p] = d]
  /\ options' = [options EXCEPT ![p] = o]
  /\ i' = [i EXCEPT ![p] = 0]
  /\ sent' = [sent EXCEPT ![p] = NoHeaders]
  /\ nCalls' = [nCalls EXCEPT ![p] = 0]
  /\ readValue' = [readValue EXCEPT ![p] = Null]
  /\ response' = [response EXCEPT ![p] = NoResponse]
  /\ prior' = [prior EXCEPT ![p] = {}]
  /\ caught' = [caught EXCEPT ![p] = NoError]
  /\ delay' = [delay EXCEPT ![p] = 0]
  /\ nWaits' = [nWaits EXCEPT ![p] = 0]
  /\ totalWait' = [totalWait EXCEPT ![p] = 0]
  /\ IF 0 < r
       THEN /\ pc' = [pc EXCEPT ![p] = "read"]
            /\ outcome' = [outcome EXCEPT ![p] = NoOutcome]
       ELSE /\ pc' = [pc EXCEPT ![p] = "done"]
            /\ outcome' = [outcome EXCEPT ![p] =
                 [response |-> NoResponse, kind |-> "raised", attempt |-> 0,
                  error |-> NoAttemptsError(r)]]
  /\ UNCHANGED <<storage, dev, cartVars, timers>>

sessionCookieReadOnce(p) == IF nCalls[p] = 0 THEN storage ELSE readValue[p]

\* const sessionCookie = await AsyncStorage.getItem('sessionCookie'), in
\* every iteration of the loop
sessionCookie(p) == storage

GetItemResolvesNoTimer(p) ==
  /\ pc[p] = "read"
  /\ readValue' = [readValue EXCEPT ![p] = sessionCookie(p)]
  /\ sent' = [sent EXCEPT ![p] =
                RequestHeaders(i[p], options[p].headers, sessionCookie(p))]
  /\ nCalls' = [nCalls EXCEPT ![p] = @ + 1]
  /\ prior' = [prior EXCEPT ![p] =
                 IF nCalls[p] = 0 THEN {} ELSE @ \cup {AnswerClass(response[p])}]
  /\ response' = [response EXCEPT ![p] = NoResponse]
  /\ pc' = [pc EXCEPT ![p] = "fetch"]
  /\ timers' = timers
  /\ UNCHANGED <<storage, dev, cartVars, variant, retries, initialDelay, options, i, caught,
                 delay, nWaits, totalWait, outcome>>

\* AsyncStorage.getItem('sessionCookie') resolves: the headers are completed,
\* the timeout timer is started and the transport call of attempt i is issued
GetItemResolves(p) ==
  /\ pc[p] = "read"
  /\ readValue' = [readValue EXCEPT ![p] = sessionCookie(p)]
  /\ sent' = [sent EXCEPT ![p] =
                RequestHeaders(i[p], options[p].headers, sessionCookie(p))]
  /\ nCalls' = [nCalls EXCEPT ![p] = @ + 1]
  /\ prior' = [prior EXCEPT ![p] =
                 IF nCalls[p] = 0 THEN {} ELSE @ \cup {AnswerClass(response[p])}]
  /\ response' = [response EXCEPT ![p] = NoResponse]
  /\ pc' = [pc EXCEPT ![p] = "fetch"]
  /\ timers' = IF HasTimeout(variant[p]) THEN timers \cup {Controller(p, i[p])} ELSE timers
  /\ UNCHANGED <<storage, dev, cartVars, variant, retries, initialDelay, options, i, caught,
                 delay, nWaits, totalWait, outcome>>

\* AsyncStorage.getItem rejects: the await is outside the try block
GetItemRejects(p) ==
  /\ pc[p] = "read"
  /\ Raise(p, ThrownError("StorageError"))
  /\ UNCHANGED <<storage, dev, cartVars, variant, retries, initialDelay, options, i, sent, nCalls,
                 readValue, response, prior, caught, timers>>

\* fetch rejects on its own (a network failure): clearTimeout is not reached,
\* the timer of the attempt stays pending
FetchRejects(p, name) ==
  /\ pc[p] = "fetch"
  /\ response' = [response EXCEPT ![p] =
                    [kind |-> name, status |-> 0, setCookie |-> Null, text |-> ""]]
  /\ Catch(p, ThrownError(name))
  /\ UNCHANGED <<storage, dev, cartVars, variant, retries, initialDelay, options, i, sent, nCalls,
                 readValue, prior, timers>>

TimeoutCancelsLoop(p) ==
  /\ pc[p] = "fetch"
  /\ Controller(p, i[p]) \in timers
  /\ timers' = timers \ {Controller(p, i[p])}
  /\ response' = [response EXCEPT ![p] =
                    [kind |-> "AbortError", status |-> 0, setCookie |-> Null, text |-> ""]]
  /\ caught' = [caught EXCEPT ![p] = ThrownError("AbortError")]
  /\ Raise(p, ThrownError("AbortError"))
  /\ UNCHANGED <<storage, dev, cartVars, variant, retries, initialDelay, options, i, sent, nCalls,
                 readValue, prior>>

\* the timer of the attempt in flight fires: controller.abort() makes the
\* fetch that carries controller.signal reject with an AbortError
TimeoutAborts(p) ==
  /\ pc[p] = "fetch"
  /\ Controller(p, i[p]) \in timers
  /\ timers' = timers \ {Controller(p, i[p])}
  /\ response' = [response EXCEPT ![p] =
                    [kind |-> "AbortError", status |-> 0, setCookie |-> Null, text |-> ""]]
  /\ Catch(p, ThrownError("AbortError"))
  /\ UNCHANGED <<storage, dev, cartVars, variant, retries, initialDelay, options, i, sent, nCalls,
                 readValue, prior>>

\* a timer fires whose controller's fetch has already settled: abort() on it
\* reaches no call
StaleTimerFires(t) ==
  /\ t \in timers
  /\ \A p \in Procs : ~(pc[p] = "fetch" /\ t = Controller(p, i[p]))
  /\ timers' = timers \ {t}
  /\ UNCHANGED <<storage, dev, cartVars, pc, variant, retries, initialDelay, options, i, sent,
                 nCalls, readValue, response, prior, caught, delay, nWaits, totalWait,
                 outcome>>

FetchFailsCapturingCookie(p, status, setCookie, text) ==
  /\ pc[p] = "fetch"
  /\ ~Ok(status)
  /\ LET r == [kind |-> "HTTP", status |-> status, setCookie |-> setCookie, text |-> text]
     IN /\ response' = [response EXCEPT ![p] = r]
        /\ storage' = IF setCookie # Null THEN setCookie ELSE storage
        /\ IF LogThrows(Logs(variant[p], dev), options[p].body)
             THEN Catch(p, ThrownError("SyntaxError"))
             ELSE IF status = 403 /\ AttemptsRemain(i[p], retries[p])
                    THEN Wait(p) /\ NoCatch(p)
                    ELSE Catch(p, HttpError(r))
  /\ timers' = timers \ {Controller(p, i[p])}
  /\ UNCHANGED <<dev, cartVars, variant, retries, initialDelay, options, i, sent, nCalls,
                 readValue, prior>>

\* fetch resolves with a response whose status is not 2xx: the timer is
\* cleared, the body text is read and logged, then the 403 branch or the
\* throw into the catch block
FetchFails(p, status, setCookie, text) ==
  /\ pc[p] = "fetch"
  /\ ~Ok(status)
  /\ LET r == [kind |-> "HTTP", status |-> status, setCookie |-> setCookie, text |-> text]
     IN /\ response' = [response EXCEPT ![p] = r]
        /\ IF LogThrows(Logs(variant[p], dev), options[p].body)
             THEN Catch(p, ThrownError("SyntaxError"))
             ELSE IF status = 403 /\ AttemptsRemain(i[p], retries[p])
                    THEN Wait(p) /\ NoCatch(p)
                    ELSE Catch(p, HttpError(r))
  /\ timers' = timers \ {Controller(p, i[p])}
  /\ UNCHANGED <<storage, dev, cartVars, variant, retries, initialDelay, options, i, sent, nCalls,
                 readValue, prior>>

FetchSucceedsStoresHeader(p, status, setCookie, text) ==
  /\ pc[p] = "fetch"
  /\ Ok(status)
  /\ LET r == [kind |-> "HTTP", status |-> status, setCookie |-> setCookie, text |-> text]
     IN /\ response' = [response EXCEPT ![p] = r]
        /\ IF setCookie # Null
             THEN /\ pc' = [pc EXCEPT ![p] = "write"]
                  /\ UNCHANGED <<storage, caught, delay, nWaits, totalWait, outcome>>
             ELSE /\ storage' = Null
                  /\ Return(p, r) /\ NoCatch(p)
  /\ timers' = timers \ {Controller(p, i[p])}
  /\ UNCHANGED <<dev, cartVars, variant, retries, initialDelay, options, i, sent, nCalls,
                 readValue, prior>>

\* fetch resolves with a 2xx response: the timer is cleared; the body is not read
FetchSucceeds(p, status, setCookie, text) ==
  /\ pc[p] = "fetch"
  /\ Ok(status)
  /\ LET r == [kind |-> "HTTP", status |-> status, setCookie |-> setCookie, text |-> text]
     IN /\ response' = [response EXCEPT ![p] = r]
        /\ IF setCookie # Null
             THEN /\ pc' = [pc EXCEPT ![p] = "write"]
                  /\ UNCHANGED <<caught, delay, nWaits, totalWait, outcome>>
             ELSE Return(p, r) /\ NoCatch(p)
  /\ timers' = timers \ {Controller(p, i[p])}
  /\ UNCHANGED <<storage, dev, cartVars, variant, retries, initialDelay, options, i, sent, nCalls,
                 readValue, prior>>

SetItemKeepsFirst(p) ==
  /\ pc[p] = "write"
  /\ storage' = IF storage = Null THEN response[p].setCookie ELSE storage
  /\ Return(p, response[p])
  /\ UNCHANGED <<dev, cartVars, variant, retries, initialDelay, options, i, sent, nCalls, readValue,
                 response, prior, caught, timers>>

\* AsyncStorage.setItem('sessionCookie', setCookie) resolves
SetItemResolves(p) ==
  /\ pc[p] = "write"
  /\ storage' = response[p].setCookie
  /\ Return(p, response[p])
  /\ UNCHANGED <<dev, cartVars, variant, retries, initialDelay, options, i, sent, nCalls, readValue,
                 response, prior, caught, timers>>

\* AsyncStorage.setItem rejects: the await is inside the try block
SetItemRejects(p) ==
  /\ pc[p] = "write"
  /\ Catch(p, ThrownError("StorageError"))
  /\ UNCHANGED <<storage, dev, cartVars, variant, retries, initialDelay, options, i, sent, nCalls,
                 readValue, response, prior, timers>>

BackoffElapsesKeepsIndex(p) ==
  /\ pc[p] = "wait"
  /\ pc' = [pc EXCEPT ![p] = "read"]
  /\ UNCHANGED <<storage, dev, cartVars, variant, retries, initialDelay, options, i, sent, nCalls,
                 readValue, response, prior, caught, delay, nWaits, totalWait, outcome,
                 timers>>

\* the backoff timer fires: i++ and the loop test
BackoffElapses(p) ==
  /\ pc[p] = "wait"
  /\ i' = [i EXCEPT ![p] = @ + 1]
  /\ IF i[p] + 1 < retries[p]
       THEN /\ pc' = [pc EXCEPT ![p] = "read"]
            /\ UNCHANGED outcome
       ELSE /\ pc' = [pc EXCEPT ![p] = "done"]
            /\ outcome' = [outcome EXCEPT ![p] =
                 [response |-> NoResponse, kind |-> "raised", attempt |-> i[p] + 1,
                  error |-> NoAttemptsError(retries[p])]]
  /\ UNCHANGED <<storage, dev, cartVars, variant, retries, initialDelay, options, sent, nCalls,
                 readValue, response, prior, caught, delay, nWaits, totalWait, timers>>

\* the caller's await of the invocation resumes with the result or the error;
\* nothing of the finished invocation remains but what it wrote to storage
\* and the timers it left pending
Settled(p) ==
  /\ pc[p] = "done"
  /\ pc' = [pc EXCEPT ![p] = "idle"]
  /\ variant' = [variant EXCEPT ![p] = "utils"]
  /\ retries' = [retries EXCEPT ![p] = DefaultRetries]
  /\ initialDelay' = [initialDelay EXCEPT ![p] = DefaultInitialDelay]
  /\ options' = [options EXCEPT ![p] = [body |-> Null, headers |-> NoHeaders]]
  /\ i' = [i EXCEPT ![p] = 0]
  /\ sent' = [sent EXCEPT ![p] = NoHeaders]
  /\ nCalls' = [nCalls EXCEPT ![p] = 0]
  /\ readValue' = [readValue EXCEPT ![p] = Null]
  /\ response' = [response EXCEPT ![p] = NoResponse]
  /\ prior' = [prior EXCEPT ![p] = {}]
  /\ caught' = [caught EXCEPT ![p] = NoError]
  /\ delay' = [delay EXCEPT ![p] = 0]
  /\ nWaits' = [nWaits EXCEPT ![p] = 0]
  /\ totalWait' = [totalWait EXCEPT ![p] = 0]
  /\ outcome' = [outcome EXCEPT ![p] = NoOutcome]
  /\ timers' = {t \in timers : t[1] # p}
                 \cup (IF \E t \in timers : t[1] = p THEN {Orphan} ELSE {})
  /\ UNCHANGED <<storage, dev, cartVars>>

\* every step of a started invocation, the transport answering with a status
\* of S, a non-2xx response carrying a Set-Cookie value of F (or none) and a
\* 2xx response a body of T
StepWith(p, S, F, T) ==
  \/ GetItemResolves(p)
  \/ GetItemRejects(p)
  \/ FetchRejects(p, "NetworkError")
  \/ TimeoutAborts(p)
  \/ \E s \in S, c \in F \cup {Null}, t \in Texts : FetchFails(p, s, c, t)
  \/ \E s \in S, c \in Cookies \cup {Null}, t \in T : FetchSucceeds(p, s, c, t)
  \/ SetItemResolves(p)
  \/ SetItemRejects(p)
  \/ BackoffElapses(p)


\* one slot running utils/fetchWithRetry.ts, one invocation after another;
\* the bodies of the 2xx responses, which the helper never reads, are all alike
Next ==
  \/ \E t \in timers : StaleTimerFires(t)
  \/ \E p \in Solo :
       \/ \E r \in RetryCounts, c \in Calls : Start(p, "utils", r, c[1], c[2])
       \/ StepWith(p, Statuses, {"sid=abc"}, {"{}"})
       \/ Settled(p)

Spec == Init /\ [][Next]_vars

\* one slot running either variant of the helper, with the default initial
\* delay; the 2xx responses have a body that is JSON or one that is not
NextVariants ==
  \/ \E t \in timers : StaleTimerFires(t)
  \/ \E p \in Solo :
       \/ \E v \in Variants, r \in 0..MaxRetries, b \in Bodies :
            Start(p, v, r, DefaultInitialDelay, [body |-> b, headers |-> NoHeaders])
       \/ StepWith(p, Statuses, {}, SuccessTexts)
       \/ Settled(p)

SpecVariants == Init /\ [][NextVariants]_vars

\* two slots running utils/fetchWithRetry.ts, their steps interleaved as the
\* awaits allow (checkout.tsx fetchData starts its calls under Promise.all)
NextConcurrent ==
  \/ \E t \in timers : StaleTimerFires(t)
  \/ \E p \in Procs :
       \/ \E r \in ConcurrentRetries :
            Start(p, "utils", r, DefaultInitialDelay, [body |-> Null, headers |-> NoHeaders])
       \/ StepWith(p, {200, 503}, {}, {"{}"})
       \/ Settled(p)

SpecConcurrent == Init /\ [][NextConcurrent]_vars

\* two slots running utils/fetchWithRetry.ts interleaved, the first with enough
\* attempts to send the stored cookie, the second storing cookies beside it
NextReread ==
  \/ \E t \in timers : StaleTimerFires(t)
  \/ \E p \in Procs :
       \/ Start(p, "utils", RereadRetries[p], DefaultInitialDelay,
                [body |-> Null, headers |-> NoHeaders])
       \/ StepWith(p, {200, 503}, {}, {"{}"})
       \/ Settled(p)

SpecReread == Init /\ [][NextReread]_vars

\* one slot running either variant with the plain request
NextLive ==
  \/ \E t \in timers : StaleTimerFires(t)
  \/ \E p \in Solo :
       \/ \E v \in Variants, r \in 0..MaxRetries :
            Start(p, v, r, DefaultInitialDelay, [body |-> Null, headers |-> NoHeaders])
       \/ StepWith(p, {200, 503}, {}, {"{}"})
       \/ Settled(p)

\* the transport call of invocation p settles on its own
TransportSettles(p) ==
  \/ FetchRejects(p, "NetworkError")
  \/ \E s \in {200, 503}, t \in Texts : FetchFails(p, s, Null, t)
  \/ \E s \in {200, 503}, c \in Cookies \cup {Null} : FetchSucceeds(p, s, c, "{}")

\* every storage call settles, every timer that is pending fires, and a
\* transport call that no abort timer guards settles; a transport call of the
\* timeout variant need not settle on its own
Fairness ==
  \A p \in Solo :
    /\ WF_vars(GetItemResolves(p) \/ GetItemRejects(p))
    /\ WF_vars(SetItemResolves(p) \/ SetItemRejects(p))
    /\ WF_vars(BackoffElapses(p))
    /\ WF_vars(TimeoutAborts(p))
    /\ WF_vars(~HasTimeout(variant[p]) /\ TransportSettles(p))

SpecLive == Init /\ [][NextLive]_vars /\ Fairness

\* ---------------------------------------------------------------- lockstep
\* slot 1 runs utils/fetchWithRetry.ts and slot 2 the fetchWithRetry of
\* orders.tsx on the same arguments; every step of slot 1 is followed by the
\* same step of slot 2 with the same answer of the environment, and no
\* timeout fires
Ahead == pc[1] # pc[2]

Lead ==
  \/ \E r \in 0..MaxRetries, b \in Bodies :
       ~Ahead /\ Start(1, "utils", r, DefaultInitialDelay,
                       [body |-> b, headers |-> NoHeaders])
  \/ ~Ahead /\ GetItemResolves(1)
  \/ ~Ahead /\ GetItemRejects(1)
  \/ ~Ahead /\ FetchRejects(1, "NetworkError")
  \/ \E s \in Statuses, t \in Texts : ~Ahead /\ FetchFails(1, s, Null, t)
  \/ \E s \in Statuses, c \in {Null, "sid=abc"} : ~Ahead /\ FetchSucceeds(1, s, c, "{}")
  \/ ~Ahead /\ SetItemResolves(1)
  \/ ~Ahead /\ SetItemRejects(1)
  \/ ~Ahead /\ BackoffElapses(1)
  \/ ~Ahead /\ Settled(1)

\* the step slot 1 has just taken, read off its state, taken by slot 2
Replay ==
  \/ Ahead /\ Start(2, "orders", retries[1], initialDelay[1], options[1])
  \/ Ahead /\ pc[1] = "fetch" /\ GetItemResolves(2)
  \/ Ahead /\ pc[1] # "fetch" /\ GetItemRejects(2)
  \/ Ahead /\ response[1].kind = "NetworkError" /\ FetchRejects(2, "NetworkError")
  \/ /\ Ahead
     /\ response[1].kind = "HTTP"
     /\ FetchFails(2, response[1].status, response[1].setCookie, response[1].text)
  \/ /\ Ahead
     /\ response[1].kind = "HTTP"
     /\ FetchSucceeds(2, response[1].status, response[1].setCookie, response[1].text)
  \/ Ahead /\ outcome[1].kind = "returned" /\ SetItemResolves(2)
  \/ Ahead /\ outcome[1].kind # "returned" /\ SetItemRejects(2)
  \/ Ahead /\ BackoffElapses(2)
  \/ Ahead /\ Settled(2)

NextLockstep == Lead \/ Replay

SpecLockstep == Init /\ [][NextLockstep]_vars

\* -------------------------------------------------------------------- cart
\* cart ? JSON.parse(cart) : []  (of an entry only its id is kept)
parseCart(c) == IF c = Null THEN <<>> ELSE c

\* cartItems.some((item) => item.id === id)
itemExists(items, x) == \E k \in 1..Len(items) : items[k] = x

\* the call handleAddToCart() on a screen showing recipe x, up to its first
\* await; without a loaded recipe it returns before touching the storage
handleAddToCart(p, x, loaded) ==
  /\ cartPc[p] = "idle"
  /\ recipeId' = [recipeId EXCEPT ![p] = x]
  /\ cartItems' = [cartItems EXCEPT ![p] = <<>>]
  /\ cartAtCall' = [cartAtCall EXCEPT ![p] = parseCart(cart)]
  /\ cartPc' = [cartPc EXCEPT ![p] = IF loaded THEN "read" ELSE "done"]
  /\ UNCHANGED <<cart, fetchVars>>

\* cartItems after line 183-205: returned from when the item exists, pushed
\* to otherwise
cartItemsPushed(items, x) == IF itemExists(items, x) THEN items ELSE Append(items, x)

\* const cart = await AsyncStorage.getItem('cart') resolves
CartGetItemResolves(p) ==
  /\ cartPc[p] = "read"
  /\ cartItems' = [cartItems EXCEPT ![p] = cartItemsPushed(parseCart(cart), recipeId[p])]
  /\ cartPc' = [cartPc EXCEPT ![p] =
                  IF itemExists(parseCart(cart), recipeId[p]) THEN "done" ELSE "write"]
  /\ UNCHANGED <<cart, recipeId, cartAtCall, fetchVars>>

\* getItem rejects: the catch block reports the failure
CartGetItemRejects(p) ==
  /\ cartPc[p] = "read"
  /\ cartPc' = [cartPc EXCEPT ![p] = "done"]
  /\ UNCHANGED <<cart, recipeId, cartItems, cartAtCall, fetchVars>>

\* await AsyncStorage.setItem('cart', JSON.stringify(cartItems)) resolves
CartSetItemResolves(p) ==
  /\ cartPc[p] = "write"
  /\ cart' = cartItems[p]
  /\ cartPc' = [cartPc EXCEPT ![p] = "done"]
  /\ UNCHANGED <<recipeId, cartItems, cartAtCall, fetchVars>>

\* setItem rejects: the catch block reports the failure, nothing is stored
CartSetItemRejects(p) ==
  /\ cartPc[p] = "write"
  /\ cartPc' = [cartPc EXCEPT ![p] = "done"]
  /\ UNCHANGED <<cart, recipeId, cartItems, cartAtCall, fetchVars>>

\* the call has returned; the screen can be pressed again
CartSettled(p) ==
  /\ cartPc[p] = "done"
  /\ cartPc' = [cartPc EXCEPT ![p] = "idle"]
  /\ recipeId' = [recipeId EXCEPT ![p] = Null]
  /\ cartItems' = [cartItems EXCEPT ![p] = <<>>]
  /\ cartAtCall' = [cartAtCall EXCEPT ![p] = <<>>]
  /\ UNCHANGED <<cart, fetchVars>>

\* two screens (recipe-details.tsx and checkout.tsx) calling handleAddToCart
NextCart ==
  \E p \in Procs :
    \/ \E x \in Recipes, loaded \in BOOLEAN : handleAddToCart(p, x, loaded)
    \/ CartGetItemResolves(p)
    \/ CartGetItemRejects(p)
    \/ CartSetItemResolves(p)
    \/ CartSetItemRejects(p)
    \/ CartSettled(p)

SpecCart == Init /\ [][NextCart]_vars

TypeOK ==
  /\ storage \in Cookies \cup StoredBefore
  /\ \A p \in Procs : /\ pc[p] \in {"idle", "read", "fetch", "write", "wait", "done"}
                      /\ variant[p] \in Variants
                      /\ i[p] \in 0..MaxRetries

\* ------------------------------------------------------- shared vocabulary
\* a transport call of invocation p is in flight: sent[p] are its headers and
\* i[p] is its attempt index
InFlight(p) == pc[p] = "fetch"

Answered(p) == nCalls[p] >= 1 /\ response[p].kind # "none"

TransportException(a) == a.kind \in {"NetworkError", "AbortError"}

Is2xx(a) == a.kind = "HTTP" /\ a.status >= 200 /\ a.status <= 299

Non2xx(a) == a.kind = "HTTP" /\ ~(a.status >= 200 /\ a.status <= 299)

\* the answers of all transport calls of invocation p made so far
Answers(p) == IF Answered(p) THEN prior[p] \cup {AnswerClass(response[p])} ELSE prior[p]

Finished(p) == pc[p] = "done"

\* ------------------------------------------------------------------ claims

\* C1: for retries = n >= 1, an invocation all of whose transport calls fail
\* with a transport-level exception calls the transport exactly n times and
\* raises one error whose message cites n attempts.
C1_AllExceptionsExhaust ==
  \A p \in Procs :
    (Finished(p) /\ retries[p] >= 1 /\ nCalls[p] >= 1
       /\ \A a \in Answers(p) : TransportException(a))
    => /\ nCalls[p] = retries[p]
       /\ outcome[p].kind = "raised"
       /\ outcome[p].error.cites = retries[p]

\* C2: for retries = n >= 2, when the transport answered 403 on attempts
\* 1..n-1 and 2xx on attempt n, the invocation returns that 2xx response and
\* raises no error.
C2_SuccessAfter403s ==
  \A p \in Procs :
    (Finished(p) /\ retries[p] >= 2 /\ nCalls[p] = retries[p]
       /\ prior[p] = {[kind |-> "HTTP", status |-> 403]}
       /\ Is2xx(response[p]))
    => /\ outcome[p].kind = "returned"
       /\ outcome[p].response = response[p]

\* C3 (as stated): for all caller options, the User-Agent header sent on
\* attempt index i is rotationList[i mod len(rotationList)].
C3_IdentityRotatesForAllOptions ==
  \A p \in Procs :
    InFlight(p) => sent[p]["User-Agent"] = userAgents[(i[p] % 3) + 1]

\* C3 (amended): the User-Agent header sent on attempt index i is
\* rotationList[i mod len(rotationList)] when the caller's options.headers has
\* no User-Agent key, and the caller's User-Agent value when it has one.
C3_IdentityRotatesUnlessOverridden ==
  \A p \in Procs :
    InFlight(p) =>
      sent[p]["User-Agent"] =
        IF "User-Agent" \in DOMAIN options[p].headers
          THEN options[p].headers["User-Agent"]
          ELSE userAgents[(i[p] % 3) + 1]

\* the rotation has wrapped around: attempt index 3 sends the first identity
C3_Witness ==
  \E p \in Procs :
    /\ InFlight(p) /\ i[p] = 3
    /\ "User-Agent" \notin DOMAIN options[p].headers
    /\ sent[p]["User-Agent"] = userAgents[1]

\* C4: the client never attaches the session cookie on attempt indices 0 and
\* 1 (a Cookie header sent there is the caller's own), and on every attempt
\* index >= 2 the Cookie header is the value the sessionCookie key held at
\* that attempt's read, whenever it held one.
C4_CookieOnlyFromThirdAttempt ==
  \A p \in Procs :
    InFlight(p) =>
      /\ i[p] < 2 =>
           IF "Cookie" \in DOMAIN options[p].headers
             THEN sent[p]["Cookie"] = options[p].headers["Cookie"]
             ELSE "Cookie" \notin DOMAIN sent[p]
      /\ (i[p] >= 2 /\ readValue[p] # Null) =>
           ("Cookie" \in DOMAIN sent[p] /\ sent[p]["Cookie"] = readValue[p])

C4_Witness ==
  \E p \in Procs :
    /\ InFlight(p) /\ i[p] >= 2 /\ readValue[p] \in Cookies
    /\ sent[p]["Cookie"] = readValue[p]

\* C5: the backoff wait performed before attempt index i >= 1 is
\* initialDelay * 2^(i-1), and one wait precedes each such attempt, whichever
\* kind of failure ended attempt i-1.
C5_BackoffDoubles ==
  \A p \in Procs :
    (pc[p] \in {"read", "fetch"} /\ i[p] >= 1) =>
      /\ delay[p] = initialDelay[p] * 2^(i[p] - 1)
      /\ nWaits[p] = i[p]

\* attempt index 3 is reached after a timeout, an HTTP 403 and an HTTP 503
C5_Witness ==
  \E p \in Procs :
    /\ pc[p] = "read" /\ i[p] = 3 /\ initialDelay[p] = DefaultInitialDelay
    /\ delay[p] = 1200
    /\ Answers(p) = {[kind |-> "AbortError", status |-> 0],
                     [kind |-> "HTTP", status |-> 403],
                     [kind |-> "HTTP", status |-> 503]}

C7_OnlyTerminalErrorSurfaces ==
  \A p \in Procs :
    (Finished(p) /\ outcome[p].kind = "raised") =>
      /\ outcome[p].error.cites = retries[p]
      /\ nCalls[p] = retries[p]

\* C8: once an attempt has received a 2xx response the invocation returns
\* that response and calls the transport no more, also when the response
\* carries a Set-Cookie header whose persistence fails.
C8_NoAttemptAfterSuccess ==
  \A p \in Procs :
    /\ \A a \in prior[p] : ~Is2xx(a)
    /\ (Is2xx(response[p]) /\ pc[p] \notin {"fetch", "write"}) =>
         (Finished(p) /\ outcome[p].kind = "returned"
            /\ outcome[p].response = response[p])

\* C9 (as stated): a non-2xx response with Set-Cookie value c on an attempt
\* that is then retried leaves the sessionCookie key holding c.
C9_SetCookieStoredOnAnyResponse ==
  \A p \in Procs :
    (pc[p] = "wait" /\ Non2xx(response[p]) /\ response[p].setCookie # Null)
    => storage = response[p].setCookie

\* C9 (amended): the sessionCookie key is written only with the Set-Cookie
\* value of a 2xx response, on whichever attempt index it arrives; a non-2xx
\* response leaves the key unchanged, whether or not it carries Set-Cookie.
C9_SetCookieStoredOnlyOn2xx ==
  [][ /\ \A p \in Procs :
           (pc[p] = "fetch" /\ pc'[p] # "fetch" /\ ~Is2xx(response'[p]))
             => storage' = storage
      /\ storage' # storage =>
           \E p \in Procs : /\ pc[p] = "write" /\ Is2xx(response[p])
                            /\ storage' = response[p].setCookie ]_vars

\* a retried non-2xx response carried a Set-Cookie value that the key does
\* not hold
C9_Witness ==
  \E p \in Procs :
    /\ pc[p] = "wait" /\ Non2xx(response[p])
    /\ response[p].setCookie \in Cookies
    /\ storage # response[p].setCookie

\* C10: a non-2xx answer, whatever its status, ends the invocation only when
\* no attempts remain; with retries = 4 and the transport answering 503 on
\* attempts 1-3 and 200 on attempt 4 the invocation returns the attempt-4
\* response after exactly four transport calls.
C10_Retry503ThenSuccess ==
  \A p \in Procs :
    /\ (Finished(p) /\ Non2xx(response[p])
          /\ outcome[p].error.reason \in {"HTTP", "SyntaxError"})
       => i[p] >= retries[p] - 1
    /\ (Finished(p) /\ retries[p] = 4 /\ nCalls[p] = 4
          /\ prior[p] = {[kind |-> "HTTP", status |-> 503]}
          /\ Is2xx(response[p]) /\ response[p].status = 200)
       => (outcome[p].kind = "returned" /\ outcome[p].response = response[p])

\* C11: when the timeout timer of an attempt fires before its transport call
\* settles, the call is aborted and the attempt is a retryable failure: with
\* attempts remaining the invocation waits and then starts the next attempt,
\* on the last attempt it raises the terminal error.
C11_TimeoutIsRetryableFailure ==
  [][\A p \in Procs :
       /\ (pc[p] = "fetch" /\ Controller(p, i[p]) \in timers
             /\ Controller(p, i[p]) \notin timers' /\ response'[p].kind = "AbortError")
          => IF i[p] < retries[p] - 1
               THEN pc'[p] = "wait" /\ outcome'[p].kind = "none" /\ i'[p] = i[p]
               ELSE /\ pc'[p] = "done"
                    /\ outcome'[p].kind = "raised"
                    /\ outcome'[p].error.cites = retries[p]
                    /\ outcome'[p].error.reason = "AbortError"
       /\ (pc[p] = "wait" /\ response[p].kind = "AbortError" /\ pc'[p] # "wait")
          => pc'[p] = "read" /\ i'[p] = i[p] + 1 /\ outcome'[p].kind = "none"]_vars

\* a transport call is in flight after the call of the attempt before it was aborted
C11_Witness ==
  \E p \in Procs : /\ InFlight(p)
                    /\ i[p] >= 1
                    /\ caught[p].reason = "AbortError"
                    /\ [kind |-> "AbortError", status |-> 0] \in prior[p]

\* the keys of the default headers
DefaultKeys == {"Accept", "Content-Type", "User-Agent", "Accept-Encoding", "Connection"}

\* C12: the headers sent on each attempt are the five default headers merged
\* with the caller's options.headers; a key present in both is sent with the
\* caller's value, a default key the caller did not give with its default.
C12_CallerHeadersWin ==
  \A p \in Procs :
    InFlight(p) =>
      LET h == options[p].headers
      IN /\ DOMAIN sent[p] \ {"Cookie"} = (DefaultKeys \cup DOMAIN h) \ {"Cookie"}
         /\ \A k \in DOMAIN h \ {"Cookie"} : sent[p][k] = h[k]
         /\ "Accept" \notin DOMAIN h => sent[p]["Accept"] = "application/json"
         /\ sent[p]["Content-Type"] = "application/json"
         /\ "User-Agent" \notin DOMAIN h =>
              sent[p]["User-Agent"] = userAgents[(i[p] % 3) + 1]
         /\ sent[p]["Accept-Encoding"] = "gzip, deflate, br"
         /\ sent[p]["Connection"] = "keep-alive"

\* a retry is in flight that carries the caller's Accept value in place of the default
C12_Witness ==
  \E p \in Procs : /\ InFlight(p)
                    /\ i[p] >= 1
                    /\ "Accept" \in DOMAIN options[p].headers
                    /\ sent[p]["Accept"] = "text/html"
                    /\ sent[p]["User-Agent"] = userAgents[(i[p] % 3) + 1]

\* C13: when the final attempt receives a non-2xx response, the error raised
\* to the caller carries the HTTP status and the body text of that response,
\* for every request body and in development as in production mode.
C13_FinalNon2xxCarriesStatusAndText ==
  \A p \in Procs :
    (Finished(p) /\ nCalls[p] = retries[p] /\ Non2xx(response[p]))
    => /\ outcome[p].kind = "raised"
       /\ outcome[p].error.status = response[p].status
       /\ outcome[p].error.text = response[p].text

\* the same with the request bodies that are not JSON left to production mode
C13_HoldsUnlessLogThrows ==
  \A p \in Procs :
    (Finished(p) /\ nCalls[p] = retries[p] /\ Non2xx(response[p])
       /\ ~(dev /\ options[p].body = "text"))
    => /\ outcome[p].kind = "raised"
       /\ outcome[p].error.status = response[p].status
       /\ outcome[p].error.text = response[p].text

\* the last attempt of invocation p has failed and the invocation has raised
FinalAttemptFailed(p) ==
  Finished(p) /\ retries[p] >= 1 /\ nCalls[p] = retries[p] /\ outcome[p].kind = "raised"

C15_PersistedCookieSentFromThirdAttempt ==
  \A p \in Procs :
    (InFlight(p) /\ storage \in Cookies)
    => IF i[p] >= 2
         THEN "Cookie" \in DOMAIN sent[p] /\ sent[p]["Cookie"] = storage
         ELSE "Cookie" \notin DOMAIN sent[p] \/ sent[p]["Cookie"] # storage

\* the third attempt of a later invocation, made with a Cookie header of the
\* caller's own, carries the cookie an earlier success stored
C15_Witness ==
  \E p \in Procs : /\ InFlight(p)
                    /\ i[p] = 2
                    /\ storage = "sid=xyz"
                    /\ "Cookie" \in DOMAIN options[p].headers
                    /\ sent[p]["Cookie"] = "sid=xyz"

\* JSON.parse(text) of the caller succeeds
ParsesAsJson(text) == text = "{}"

\* C16: a 2xx response whose body is not parseable JSON is returned to the
\* caller on the attempt that produced it, with no further attempt: once the
\* client is past that response, the invocation has returned it.
C16_UnparseableSuccessReturnedAtOnce ==
  \A p \in Procs :
    (Is2xx(response[p]) /\ ~ParsesAsJson(response[p].text) /\ pc[p] # "write")
    => /\ Finished(p)
       /\ outcome[p].kind = "returned"
       /\ outcome[p].response = response[p]
       /\ outcome[p].attempt = nCalls[p] - 1

\* the same for the responses that carry no Set-Cookie header
C16_HoldsWithoutSetCookie ==
  \A p \in Procs :
    (Is2xx(response[p]) /\ ~ParsesAsJson(response[p].text) /\ pc[p] # "write"
       /\ response[p].setCookie = Null)
    => /\ Finished(p)
       /\ outcome[p].kind = "returned"
       /\ outcome[p].response = response[p]
       /\ outcome[p].attempt = nCalls[p] - 1

\* invocation p has stored the Set-Cookie value of its response and returned
Wrote(p) ==
  Finished(p) /\ outcome[p].kind = "returned" /\ outcome[p].response.setCookie # Null

\* C17: when two invocations run concurrently and each receives a 2xx
\* response with a different Set-Cookie value, every write leaves the key
\* holding exactly the value of that write, the key changes by nothing but
\* such a write, and once both have written it holds one of the two values.
C17_LastWriterWins ==
  /\ [](\A p, q \in Procs :
          (Wrote(p) /\ Wrote(q)
             /\ outcome[p].response.setCookie # outcome[q].response.setCookie)
          => storage \in {outcome[p].response.setCookie, outcome[q].response.setCookie})
  /\ [][ /\ \A p \in Procs :
            (pc[p] = "write" /\ pc'[p] = "done" /\ outcome'[p].kind = "returned")
            => storage' = response[p].setCookie
        /\ storage' # storage
            => \E p \in Procs : /\ pc[p] = "write" /\ pc'[p] = "done"
                                 /\ outcome'[p].kind = "returned"
                                 /\ storage' = response[p].setCookie ]_vars

\* both invocations read the key before either wrote it, both have written,
\* and the key holds the value of the first invocation
C17_Witness ==
  /\ Wrote(1) /\ Wrote(2)
  /\ readValue[1] = "sid=old" /\ readValue[2] = "sid=old"
  /\ outcome[1].response.setCookie = "sid=abc"
  /\ outcome[2].response.setCookie = "sid=xyz"
  /\ storage = "sid=abc"

\* C18: the diagnostic logging never throws: for every request body, a
\* non-2xx response is handled by the 403 branch when its status is 403 and
\* attempts remain, and otherwise reaches the catch block as the failure
\* 'HTTP <status> - <text>'.
C18_LoggingNeverThrows ==
  \A p \in Procs :
    (Non2xx(response[p]) /\ nCalls[p] = i[p] + 1 /\ pc[p] \in {"wait", "done"})
    => IF response[p].status = 403 /\ i[p] < retries[p] - 1
         THEN caught[p].reason = "none"
         ELSE /\ caught[p].reason = "HTTP"
              /\ caught[p].status = response[p].status
              /\ caught[p].text = response[p].text

\* the same for the request bodies that are absent or JSON
C18_HoldsForJsonBodies ==
  \A p \in Procs :
    (Non2xx(response[p]) /\ nCalls[p] = i[p] + 1 /\ pc[p] \in {"wait", "done"} /\ options[p].body # "text")
    => IF response[p].status = 403 /\ i[p] < retries[p] - 1
         THEN caught[p].reason = "none"
         ELSE /\ caught[p].reason = "HTTP"
              /\ caught[p].status = response[p].status
              /\ caught[p].text = response[p].text

\* C19: with retries = 1 there is one attempt and no backoff wait; no wait
\* follows the final attempt, so an invocation whose n attempts all fail has
\* waited initialDelay * (2^(n-1) - 1) in total: 2100 for n = 4 and
\* initialDelay = 300.
C19_NoWaitAfterFinalAttempt ==
  \A p \in Procs :
    /\ retries[p] = 1 => (i[p] = 0 /\ nCalls[p] <= 1 /\ nWaits[p] = 0 /\ totalWait[p] = 0)
    /\ retries[p] >= 1 => nWaits[p] <= retries[p] - 1
    /\ Finished(p) => nWaits[p] = i[p]
    /\ (Finished(p) /\ retries[p] >= 1 /\ outcome[p].kind = "raised"
          /\ i[p] = retries[p] - 1)
       => /\ totalWait[p] = initialDelay[p] * (2^(retries[p] - 1) - 1)
          /\ (retries[p] = 4 /\ initialDelay[p] = 300) => totalWait[p] = 2100

\* four attempts have failed with the default initial delay
C19_Witness ==
  \E p \in Procs : /\ Finished(p)
                    /\ outcome[p].kind = "raised"
                    /\ retries[p] = 4 /\ nCalls[p] = 4
                    /\ initialDelay[p] = 300
                    /\ nWaits[p] = 3
                    /\ totalWait[p] = 2100

\* C20: within one invocation the attempt index is 0 at the first transport
\* call and one more at each next call, it never exceeds retries - 1, and the
\* number of transport calls never exceeds retries.
C20_AttemptIndexCounts ==
  /\ [](\A p \in Procs :
          /\ nCalls[p] <= retries[p] \/ nCalls[p] = 0
          /\ InFlight(p) => (i[p] = nCalls[p] - 1 /\ i[p] <= retries[p] - 1))
  /\ [][\A p \in Procs :
          /\ (pc[p] # "fetch" /\ pc'[p] = "fetch")
             => (nCalls'[p] = nCalls[p] + 1 /\ i'[p] = nCalls[p])
          /\ (pc[p] # "idle" /\ pc'[p] # "idle") => i'[p] \in {i[p], i[p] + 1}]_vars

\* the last of four attempts is in flight
C20_Witness ==
  \E p \in Procs : InFlight(p) /\ retries[p] = 4 /\ i[p] = 3 /\ nCalls[p] = 4

\* invocation p has been called and has not finished
Running(p) == pc[p] \in {"read", "fetch", "write", "wait"}

\* C21: every invocation eventually finishes, by returning a response or by
\* raising an error, when every storage call and timer settles and every
\* transport call without an abort timer settles; in the timeout variant
\* also when a transport call never settles on its own.
C21_EveryInvocationFinishes ==
  \A p \in Procs :
    Running(p) ~> (Finished(p) /\ outcome[p].kind \in {"returned", "raised"})

\* the timeout variant has finished after every one of its three transport
\* calls was ended by the abort timer
C21_Witness ==
  \E p \in Procs : /\ Finished(p)
                    /\ variant[p] = "utils"
                    /\ retries[p] = 3 /\ nCalls[p] = 3
                    /\ Answers(p) = {[kind |-> "AbortError", status |-> 0]}

\* C22: the session cookie is read anew before each attempt: the Cookie
\* header of attempt i >= 2 is the value the key holds when the read of
\* attempt i resolves, whatever the read of the attempt before returned, so
\* a value another invocation wrote between two attempts is sent on the
\* later one.
C22_CookieReadAnewEachAttempt ==
  /\ [](\A p \in Procs :
          (InFlight(p) /\ i[p] >= 2 /\ readValue[p] # Null)
          => ("Cookie" \in DOMAIN sent[p] /\ sent[p]["Cookie"] = readValue[p]))
  /\ [][\A p \in Procs :
          (pc[p] = "read" /\ pc'[p] = "fetch")
          => /\ readValue'[p] = storage
             /\ (i[p] >= 2 /\ storage # Null)
                => ("Cookie" \in DOMAIN sent'[p] /\ sent'[p]["Cookie"] = storage)]_vars

\* the read of attempt index 2 of the first invocation is pending; its read
\* of attempt index 1 returned the old cookie, and the second invocation has
\* stored another one since
C22_Witness ==
  /\ pc[1] = "read" /\ i[1] = 2 /\ nCalls[1] = 2
  /\ readValue[1] = "sid=old"
  /\ Wrote(2) /\ outcome[2].response.setCookie = "sid=xyz"
  /\ storage = "sid=xyz"

\* C23: an invocation in which no response carries a Set-Cookie header
\* leaves the sessionCookie key as it was, whether it returns or raises: the
\* key changes in no step but the completed write of a Set-Cookie value, it
\* is never emptied, and an invocation that finishes without having written
\* leaves the value its last read returned.
C23_KeyKeptWithoutSetCookie ==
  /\ [](\A p \in Procs :
          (Finished(p) /\ nCalls[p] >= 1 /\ response[p].setCookie = Null)
          => storage = readValue[p])
  /\ [][ /\ storage # Null => storage' # Null
        /\ \A p \in Procs :
             (pc[p] # pc'[p] /\ response[p].setCookie = Null) => storage' = storage ]_vars

\* an invocation has returned a response without Set-Cookie header on its
\* second attempt and the key holds the cookie it held before
C23_Witness ==
  \E p \in Procs : /\ Finished(p)
                    /\ outcome[p].kind = "returned"
                    /\ outcome[p].response.setCookie = Null
                    /\ nCalls[p] = 2
                    /\ readValue[p] = "sid=abc"
                    /\ storage = "sid=abc"

\* everything invocation p holds: its arguments, its position and its results
Local(p) ==
  <<pc[p], variant[p], retries[p], initialDelay[p], options[p], i[p], sent[p],
    nCalls[p], readValue[p], response[p], prior[p], caught[p], delay[p], nWaits[p],
    totalWait[p], outcome[p]>>

\* C24: concurrent invocations are independent except through the
\* sessionCookie key: a step of one invocation changes nothing the other
\* holds, and whatever the other does, the number of calls, the identity and
\* the backoff wait of each attempt follow from the invocation's own attempt
\* index and its outcome from its own last answer.
C24_InvocationsIndependent ==
  /\ [][\A p, q \in Procs :
          (p # q /\ pc'[q] # pc[q]) => Local(p)' = Local(p)]_vars
  /\ [](\A p \in Procs :
          /\ InFlight(p)
             => /\ nCalls[p] = i[p] + 1
                /\ nWaits[p] = i[p]
                /\ sent[p]["User-Agent"] = userAgents[(i[p] % 3) + 1]
                /\ i[p] >= 1 => delay[p] = initialDelay[p] * 2^(i[p] - 1)
          /\ (Finished(p) /\ nCalls[p] >= 1 /\ outcome[p].kind = "returned")
             => (Is2xx(response[p]) /\ outcome[p].response = response[p])
          /\ (Finished(p) /\ nCalls[p] >= 1 /\ ~Is2xx(response[p])
                /\ nCalls[p] = i[p] + 1)
             => (outcome[p].kind = "raised" /\ nCalls[p] = retries[p]))

\* the second attempt of one invocation is in flight while the other waits
\* after its first
C24_Witness ==
  /\ InFlight(1) /\ i[1] = 1 /\ delay[1] = 300
  /\ pc[2] = "wait" /\ i[2] = 0 /\ nCalls[2] = 1

\* C25: the abort timer started for attempt i can abort only the transport
\* call of attempt i: a call is aborted only in a step in which the timer
\* started for that very attempt fires, and while that timer stays pending
\* no other timer that fires or is cleared, left over from an earlier attempt
\* or belonging to another invocation, touches the call.
C25_TimerAbortsOnlyItsOwnCall ==
  [][\A p \in Procs :
       /\ (InFlight(p) /\ response'[p].kind = "AbortError")
          => (<<p, i[p]>> \in timers /\ timers' = timers \ {<<p, i[p]>>})
       /\ (InFlight(p) /\ timers' # timers /\ <<p, i[p]>> \in timers')
          => Local(p)' = Local(p)]_vars

\* the second attempt of the first invocation and a call of the second
\* invocation are in flight while the timer of the first attempt, whose call
\* threw, is still pending
C25_Witness ==
  /\ InFlight(1) /\ i[1] = 1
  /\ [kind |-> "NetworkError", status |-> 0] \in prior[1]
  /\ <<1, 0>> \in timers /\ <<1, 1>> \in timers
  /\ InFlight(2)

\* C26: when the caller supplies a Cookie header of its own, an attempt with
\* index >= 2 made while a session cookie is stored sends the stored cookie
\* in its place; the attempts with index 0 and 1 send the caller's Cookie
\* header unchanged.
C26_StoredCookieReplacesCallerCookie ==
  \A p \in Procs :
    (InFlight(p) /\ "Cookie" \in DOMAIN options[p].headers)
    => /\ "Cookie" \in DOMAIN sent[p]
       /\ (i[p] >= 2 /\ readValue[p] # Null) => sent[p]["Cookie"] = readValue[p]
       /\ i[p] <= 1 => sent[p]["Cookie"] = options[p].headers["Cookie"]

\* the third attempt of a call made with Cookie: caller=1 carries the cookie
\* that was stored before the first invocation
C26_Witness ==
  \E p \in Procs : /\ InFlight(p)
                    /\ i[p] = 2
                    /\ options[p].headers = [k \in {"Cookie"} |-> "caller=1"]
                    /\ readValue[p] = "sid=old"
                    /\ sent[p]["Cookie"] = "sid=old"

\* C27: called with retries <= 0, fetchWithRetry makes no transport call and
\* no storage access, and raises the error 'Fetch failed after <retries>
\* attempts': the call goes from its start to the final throw in one step
\* that leaves the storage and the timers alone.
C27_NoAttemptsWithoutRetries ==
  /\ [](\A p \in Procs :
          (pc[p] # "idle" /\ retries[p] <= 0)
          => /\ Finished(p)
             /\ nCalls[p] = 0
             /\ sent[p] = NoHeaders
             /\ response[p] = NoResponse
             /\ outcome[p].kind = "raised"
             /\ outcome[p].error = [status |-> 0, text |-> "",
                                    cites |-> retries[p], reason |-> "none"])
  /\ [][\A p \in Procs :
          (pc[p] = "idle" /\ pc'[p] # "idle" /\ retries'[p] <= 0)
          => /\ pc'[p] = "done"
             /\ storage' = storage
             /\ timers' = timers]_vars

\* a call with retries = -1 has raised 'Fetch failed after -1 attempts'
C27_Witness ==
  \E p \in Procs : /\ Finished(p)
                    /\ retries[p] < 0
                    /\ nCalls[p] = 0
                    /\ outcome[p].kind = "raised"
                    /\ outcome[p].error.cites = retries[p]
                    /\ outcome[p].error.reason = "none"

\* what a caller and the transport can see of invocation p: where it stands,
\* the attempts made, the headers of the current attempt, the waits, the value
\* read from storage and the outcome without the error's message
Observed(p) ==
  <<pc[p], i[p], nCalls[p], sent[p], readValue[p], AnswerClass(response[p]),
    delay[p], nWaits[p], totalWait[p],
    outcome[p].kind, outcome[p].attempt, outcome[p].response>>

\* C28: when no timeout fires, utils/fetchWithRetry.ts and the fetchWithRetry
\* of orders.tsx behave the same on the same sequence of transport answers:
\* after every step taken by both, the two invocations have made the same
\* number of attempts, send the same User-Agent and Cookie headers, have
\* waited the same delays and have the same success-or-failure outcome; the
\* step of orders.tsx writes to storage what the step of utils wrote, and it
\* can always follow.
C28_VariantsAgreeWithoutTimeout ==
  /\ [](~Ahead => Observed(1) = Observed(2))
  /\ [](Ahead => ENABLED Replay)
  /\ [][pc'[2] # pc[2] => (Observed(2)' = Observed(1)' /\ storage' = storage)]_vars

\* both have raised after the same three attempts on a 403 and a text body in
\* production: the log of orders.tsx threw on the 403, the 403 branch of utils
\* waited
C28_Witness ==
  /\ Finished(1) /\ Finished(2)
  /\ variant[1] = "utils" /\ variant[2] = "orders"
  /\ ~dev
  /\ options[2].body = "text"
  /\ nCalls[2] = 3
  /\ [kind |-> "HTTP", status |-> 403] \in prior[2]
  /\ caught[2].reason = "SyntaxError"
  /\ caught[1].reason = "HTTP"
  /\ totalWait[1] = totalWait[2]
  /\ outcome[2].kind = "raised"

\* a step of the handleAddToCart call p
CartStep(p) == cartPc'[p] # cartPc[p]

\* the half of C29 that the code keeps: the stored cart never holds two
\* entries with the same id, whatever the interleaving of the calls
C29_NoDuplicateIds ==
  \A k, l \in 1..Len(parseCart(cart)) : parseCart(cart)[k] = parseCart(cart)[l] => k = l

\* the other half as the code keeps it: a call whose read finds the id in the
\* cart returns without writing
C29_FoundIdIsNotWritten ==
  [][\A p \in Procs :
       (cartPc[p] = "read" /\ itemExists(parseCart(cart), recipeId[p]) /\ CartStep(p))
       => (cartPc'[p] = "done" /\ cart' = cart)]_vars

\* C29: after any sequence of handleAddToCart calls, interleaved ones
\* included, the stored cart never contains two entries with the same id,
\* and a call for an id that was in the stored cart when the call was made
\* leaves the stored cart unchanged in each of its steps.
C29_CartUniqueAndPresentIdUntouched ==
  /\ []C29_NoDuplicateIds
  /\ [][\A p \in Procs :
          (CartStep(p) /\ cartPc[p] # "idle" /\ itemExists(cartAtCall[p], recipeId[p]))
          => cart' = cart]_vars

====
